---- MODULE Spec2Model ----
(***************************************************************************)
(* Model of slingshot.py: layered configuration resolution, persistence   *)
(* of the configuration document and the sync-then-execute orchestration  *)
(* of main().                                                              *)
(*                                                                         *)
(* Representation.                                                         *)
(*  - A Python dict of options is a function from key strings to values.   *)
(*  - Paths, module names and target keys are sequences of one-character   *)
(*    strings, so that str.replace and f-string concatenation are modelled *)
(*    character by character.                                              *)
(*  - A host entry of config["script_cfg"] is a record: opts are its       *)
(*    option keys, hasScripts says whether it has the key "scripts", and   *)
(*    scripts is the value of that key (target key -> leaf dict).          *)
(*  - The Python value True in host position is the token PyTrue; json     *)
(*    writes a dict key True as the string "true" (JsonKey).               *)
(*  - file is the configuration file as json.load reads it back, and       *)
(*    file_at_start is its content when the invocation began.               *)
(***************************************************************************)
EXTENDS Integers, Sequences, FiniteSets, TLC

VARIABLES file, pc, runs, args, config, runtime_config, local_path,
          remote_host, consulted, local_project_root, remote_path,
          events, sync_result, exec_call, prev, file_at_start, aux, conc

vars == <<file, pc, runs, args, config, runtime_config, local_path,
          remote_host, consulted, local_project_root, remote_path,
          events, sync_result, exec_call, prev, file_at_start, aux, conc>>

(* ---------------------------- bounds ---------------------------------- *)
\* number of invocations of main() in one behaviour
MaxRuns == 2

(* ---------------------------- tokens ---------------------------------- *)
\* Python None in a string position / in a path position
None == "<None>"
NoPath == <<"<None>">>
\* Python True used as a host (args.remote_host of a store_true option)
PyTrue == "<True>"
\* a value that is not a pathlib.Path (find_project_root's fallbacks)
NotAPath == <<"<str>">>

EmptyDict == [k \in {} |-> None]
NoConfig == [global |-> EmptyDict, script_cfg |-> EmptyDict, mru |-> None]
NoRuntime == [opts |-> EmptyDict, hasScripts |-> FALSE]
NoArgs == [source_file |-> NoPath, m |-> NoPath, remote_host |-> FALSE,
           test |-> NoPath, args |-> None, interpreter |-> None,
           edit_args |-> FALSE, prompt |-> FALSE, verbose |-> FALSE]
NoExec == [kind |-> None]
NoPrev == [set |-> FALSE]
\* the idle values of aux (the inputs of the operators that are applied on
\* their own) and of conc (the invocations that run concurrently)
NoAux == [kind |-> None]
NoConc == [kind |-> None]

(* ------------------------- dict helpers ------------------------------- *)
\* Python a | b
Merge(a, b) ==
    [k \in (DOMAIN a) \cup (DOMAIN b) |-> IF k \in DOMAIN b THEN b[k] ELSE a[k]]

\* Python d[k] = v
Set(d, k, v) == [x \in (DOMAIN d) \cup {k} |-> IF x = k THEN v ELSE d[x]]

\* Python truthiness of an optional string
Truthy(s) == s # None /\ s # ""
TruthyPath(s) == s # NoPath /\ s # <<>>

(* ------------------------- constants of the program ------------------- *)
ModSep == <<"_", "m", "o", "d", "_">>
Cwd == <<"/", "w">>

DEFAULT_CONFIG ==
    [interpreter |-> "python3",
     project_roots |-> <<>>,
     auto_add_hosts |-> TRUE,
     rsync_options |-> <<"--archive", "--compress", "--delete">>,
     remote_base_dir |-> <<"/", "t", "m", "p">>,
     close |-> TRUE,
     prompt |-> FALSE,
     verbose |-> FALSE,
     allow_config_updates |-> TRUE]

(* ------------------------- ConfigStore -------------------------------- *)
\* json writes the dict key True as "true"; every other key is a string
JsonKey(h) == IF h = PyTrue THEN "true" ELSE h

\* json.dump followed by json.load: keys go through JsonKey; when two keys
\* of a dict are written as the same string the later one (the key True,
\* which update_config inserts after the loaded keys) is the one read back
write_config(cfg) ==
    [global |-> cfg.global,
     script_cfg |->
        [h \in {JsonKey(x) : x \in DOMAIN cfg.script_cfg} |->
            IF h = "true" /\ PyTrue \in DOMAIN cfg.script_cfg
            THEN cfg.script_cfg[PyTrue]
            ELSE cfg.script_cfg[h]],
     mru |-> cfg.mru]

\* json.load of the file
read_config(f) == f

(* ------------------------- ConfigResolver ----------------------------- *)
\* line 60
ConfigKey(lp, module) == IF module = NoPath THEN lp ELSE lp \o ModSep \o module

NoHostEntry == [opts |-> EmptyDict, hasScripts |-> FALSE, scripts |-> EmptyDict]

\* lines 61-64
HostCfgOf(cfg, host) ==
    IF host \in DOMAIN cfg.script_cfg THEN cfg.script_cfg[host] ELSE NoHostEntry

\* lines 66-69
ScriptCfgOf(cfg, host, key) ==
    IF /\ host \in DOMAIN cfg.script_cfg
       /\ cfg.script_cfg[host].hasScripts
       /\ key \in DOMAIN cfg.script_cfg[host].scripts
    THEN cfg.script_cfg[host].scripts[key]
    ELSE EmptyDict

\* line 71, with the key order of the merge exchanged
MergeLayersSwapped(rc, host_cfg, script_cfg) ==
    [opts |-> Merge(Merge(rc.opts, script_cfg), host_cfg.opts),
     hasScripts |-> rc.hasScripts \/ host_cfg.hasScripts]

\* line 71: runtime_config | host_cfg | script_cfg.  The key "scripts" of
\* the host entry is merged like any other key of it.
MergeLayers(rc, host_cfg, script_cfg) ==
    [opts |-> Merge(Merge(rc.opts, host_cfg.opts), script_cfg),
     hasScripts |-> rc.hasScripts \/ host_cfg.hasScripts]

\* lines 73-74: args.verbose comes from a store_true option, so it is False
\* or True and never None; the assignment always happens
OverlayVerbose(o, a) == Set(o, "verbose", a.verbose)
\* lines 75-76
OverlayPrompt(o, a) == IF a.prompt THEN Set(o, "prompt", a.prompt) ELSE o
\* lines 77-78
OverlayArgs(o, a) == IF Truthy(a.args) THEN Set(o, "args", a.args) ELSE o
\* lines 79-80
OverlayInterpreter(o, a) ==
    IF Truthy(a.interpreter) THEN Set(o, "interpreter", a.interpreter) ELSE o
\* lines 81-82 and 133-134: typed is what the line-editing prompt returns
edit_args(o, a, typed) == IF a.edit_args THEN Set(o, "args", typed) ELSE o

\* lines 73-82
OverlayCli(o, a, typed) ==
    edit_args(OverlayInterpreter(OverlayArgs(OverlayPrompt(OverlayVerbose(o, a), a), a), a), a, typed)

\* lines 84-88: create the missing mappings on the path
\* script_cfg / host / "scripts" / key
EnsurePath(cfg, host, key) ==
    LET e0 == IF host \in DOMAIN cfg.script_cfg
              THEN cfg.script_cfg[host] ELSE NoHostEntry
        sc == IF e0.hasScripts THEN e0.scripts ELSE EmptyDict
        sc1 == IF key \in DOMAIN sc THEN sc ELSE Set(sc, key, EmptyDict)
        e1 == [opts |-> e0.opts, hasScripts |-> TRUE, scripts |-> sc1]
    IN [cfg EXCEPT !.script_cfg = Set(cfg.script_cfg, host, e1)]

\* config["script_cfg"][host]["scripts"][key][k] = v
SetLeaf(cfg, host, key, k, v) ==
    [cfg EXCEPT !.script_cfg[host].scripts[key] =
                    Set(cfg.script_cfg[host].scripts[key], k, v)]

\* lines 90-94
WriteBack(cfg, o, host, key) ==
    LET c1 == IF "args" \in DOMAIN o
              THEN SetLeaf(cfg, host, key, "args", o["args"]) ELSE cfg
    IN IF "interpreter" \in DOMAIN o
       THEN SetLeaf(c1, host, key, "interpreter", o["interpreter"]) ELSE c1

\* lines 96-97
AutoAddHost(cfg, o, host) ==
    IF o["auto_add_hosts"] /\ host \notin DOMAIN cfg.script_cfg
    THEN [cfg EXCEPT !.script_cfg = Set(cfg.script_cfg, host, NoHostEntry)]
    ELSE cfg

\* lines 59-99 with lines 84-97 run only for a host that has an entry
update_config_known_hosts(rc, cfg, a, host, lp, module, typed) ==
    LET key == ConfigKey(lp, module)
        merged == MergeLayers(rc, HostCfgOf(cfg, host), ScriptCfgOf(cfg, host, key))
        o == OverlayCli(merged.opts, a, typed)
        c3 == IF host \in DOMAIN cfg.script_cfg
              THEN AutoAddHost(WriteBack(EnsurePath(cfg, host, key), o, host, key), o, host)
              ELSE cfg
    IN [rc |-> [opts |-> o, hasScripts |-> merged.hasScripts], config |-> c3]

\* lines 59-99: the returned runtime_config and the mutated config.  The
\* value of the key "scripts" of the returned mapping is the very dict
\* object config["script_cfg"][host]["scripts"], so it is read from config.
update_config(rc, cfg, a, host, lp, module, typed) ==
    LET key == ConfigKey(lp, module)
        merged == MergeLayers(rc, HostCfgOf(cfg, host), ScriptCfgOf(cfg, host, key))
        o == OverlayCli(merged.opts, a, typed)
        c1 == EnsurePath(cfg, host, key)
        c2 == WriteBack(c1, o, host, key)
        c3 == AutoAddHost(c2, o, host)
    IN [rc |-> [opts |-> o, hasScripts |-> merged.hasScripts], config |-> c3]

\* the keys of a runtime_config
RuntimeKeys(rc) == (DOMAIN rc.opts) \cup (IF rc.hasScripts THEN {"scripts"} ELSE {})

(* ------------------------- PathMapper --------------------------------- *)
\* str.replace(old, ""): every non-overlapping occurrence of old, found
\* from the left, is removed
RECURSIVE RemoveAll(_, _)
RemoveAll(s, old) ==
    IF old = <<>> \/ Len(s) < Len(old) THEN s
    ELSE IF SubSeq(s, 1, Len(old)) = old
         THEN RemoveAll(SubSeq(s, Len(old) + 1, Len(s)), old)
         ELSE <<Head(s)>> \o RemoveAll(Tail(s), old)

\* the components of a path string: split at "/", empty and "." dropped
RECURSIVE Parts(_, _)
Parts(s, cur) ==
    LET done == IF cur = <<>> \/ cur = <<".">> THEN <<>> ELSE <<cur>>
    IN IF s = <<>> THEN done
       ELSE IF Head(s) = "/" THEN done \o Parts(Tail(s), <<>>)
       ELSE Parts(Tail(s), Append(cur, Head(s)))

RECURSIVE Join(_)
Join(ps) ==
    IF ps = <<>> THEN <<>>
    ELSE IF Len(ps) = 1 THEN ps[1]
    ELSE ps[1] \o <<"/">> \o Join(Tail(ps))

\* the root of a POSIX path: exactly two leading slashes are kept
Root(s) ==
    IF Len(s) >= 2 /\ s[1] = "/" /\ s[2] = "/" /\ (Len(s) = 2 \/ s[3] # "/")
    THEN <<"/", "/">>
    ELSE IF Len(s) >= 1 /\ s[1] = "/" THEN <<"/">> ELSE <<>>

\* str(pathlib.Path(s))
PathOf(s) ==
    LET p == Root(s) \o Join(Parts(s, <<>>))
    IN IF p = <<>> THEN <<".">> ELSE p

\* str(pathlib.Path(s).parent)
Parent(s) ==
    LET ps == Parts(s, <<>>)
    IN IF ps = <<>> THEN PathOf(s)
       ELSE PathOf(Root(s) \o Join(SubSeq(ps, 1, Len(ps) - 1)))

\* lines 155-158
get_remote_path(lp, root, remote_base_dir) ==
    LET relative_source_file_path == PathOf(RemoveAll(PathOf(lp), Parent(root)))
    IN PathOf(remote_base_dir \o relative_source_file_path)

(* ------------------------- inputs ------------------------------------- *)
SourceFiles == {<<"a">>}
Modules == {<<"m">>}
Tests == {<<"t">>}
CliArgs == {"--foo"}
CliInterpreters == {"pypy"}
\* what the user may type at the host prompt and at the args prompt
PromptHosts == {"h1", "h2"}
EditInputs == {"--bar"}
\* what git reports as the top level of the work tree
GitRoots == {Cwd}

\* the options given on a command line, by their short names
OptionsOf(a) ==
    (IF a.remote_host THEN {"r"} ELSE {}) \cup (IF a.test # NoPath THEN {"t"} ELSE {})
    \cup (IF a.args # None THEN {"a"} ELSE {})
    \cup (IF a.interpreter # None THEN {"i"} ELSE {})
    \cup (IF a.edit_args THEN {"e"} ELSE {}) \cup (IF a.prompt THEN {"p"} ELSE {})
    \cup (IF a.verbose THEN {"v"} ELSE {})

\* the combinations of options tried: none, each option alone, and the
\* pairs whose members interact (-r before -p, -e after -a, -a under -r)
OptionSets ==
    {{}} \cup {{f} : f \in {"r", "t", "a", "i", "e", "p", "v"}}
    \cup {{"r", "p"}, {"a", "e"}, {"r", "a"}}

\* the command lines, as the namespace argparse would build from them
Argvs ==
    {a \in [source_file : SourceFiles \cup {NoPath},
            m : Modules \cup {NoPath},
            remote_host : BOOLEAN,
            test : Tests \cup {NoPath},
            args : CliArgs \cup {None},
            interpreter : CliInterpreters \cup {None},
            edit_args : BOOLEAN,
            prompt : BOOLEAN,
            verbose : BOOLEAN] : OptionsOf(a) \in OptionSets}

\* the configuration files a first run may find
KeyA == ConfigKey(Cwd \o <<"/", "a">>, NoPath)
GlobalChoices ==
    {EmptyDict,
     [interpreter |-> "py_g", args |-> "a_g"],
     [verbose |-> TRUE],
     [allow_config_updates |-> FALSE],
     [auto_add_hosts |-> FALSE],
     [rsync_options |-> <<"--archive">>]}
HostLayered ==
    [opts |-> [interpreter |-> "py_h", args |-> "a_h"], hasScripts |-> TRUE,
     scripts |-> [k \in {KeyA} |-> [interpreter |-> "py_t", args |-> "a_t"]]]
HostChoices ==
    {[opts |-> EmptyDict, hasScripts |-> FALSE, scripts |-> EmptyDict],
     [opts |-> [interpreter |-> "py_h", args |-> "a_h"], hasScripts |-> TRUE,
      scripts |-> EmptyDict],
     [opts |-> EmptyDict, hasScripts |-> TRUE,
      scripts |-> [k \in {KeyA} |-> [verbose |-> TRUE]]]}
InitFiles ==
    {[global |-> g, script_cfg |-> [h \in {"h1"} |-> HostLayered], mru |-> "h1"] :
        g \in GlobalChoices}
    \cup
    {[global |-> EmptyDict, script_cfg |-> [h \in {"h1"} |-> e], mru |-> "h1"] :
        e \in HostChoices}
    \cup
    {[global |-> EmptyDict, script_cfg |-> EmptyDict, mru |-> "h1"]}

(* ------------------------- main --------------------------------------- *)
Init ==
    /\ file \in InitFiles
    /\ pc = "start"
    /\ runs = 1
    /\ args = NoArgs
    /\ config = NoConfig
    /\ runtime_config = NoRuntime
    /\ local_path = NoPath
    /\ remote_host = None
    /\ consulted = {}
    /\ local_project_root = NoPath
    /\ remote_path = NoPath
    /\ events = <<>>
    /\ sync_result = None
    /\ exec_call = NoExec
    /\ prev = NoPrev
    /\ file_at_start = file
    /\ aux = NoAux
    /\ conc = NoConc

\* lines 163-169 with every command line accepted
ParseAcceptsAll(sf, m) == TRUE

\* lines 163-169: the required mutually exclusive group of source_file and -m
ParseAccepts(sf, m) == (sf # NoPath) # (m # NoPath)

\* line 194: args holds the command line; parse_args exits on a rejected one
GetArgs ==
    /\ pc = "start"
    /\ \E a \in Argvs :
          /\ args' = a
          /\ pc' = IF ParseAccepts(a.source_file, a.m) THEN "parsed" ELSE "usage_error"
    /\ UNCHANGED <<file, runs, config, runtime_config, local_path, remote_host,
                   consulted, local_project_root, remote_path, events,
                   sync_result, exec_call, prev,
                   file_at_start, aux, conc>>

\* lines 195-196
ReadConfig ==
    /\ pc = "parsed"
    /\ config' = read_config(file)
    /\ runtime_config' = [opts |-> Merge(DEFAULT_CONFIG, read_config(file).global),
                          hasScripts |-> FALSE]
    /\ pc' = "loaded"
    /\ UNCHANGED <<file, runs, args, local_path, remote_host, consulted,
                   local_project_root, remote_path, events, sync_result,
                   exec_call, prev,
                   file_at_start, aux, conc>>

\* line 198
LocalPathOf(a) ==
    IF TruthyPath(a.source_file) THEN PathOf(Cwd \o <<"/">> \o a.source_file) ELSE Cwd

\* lines 199-200 with the check left out
PathCheckSkipped(exists) == TRUE

\* line 199
PathCheck(exists) == exists

\* lines 198-200: exists is what the file system answers
ResolveLocalPath ==
    /\ pc = "loaded"
    /\ local_path' = LocalPathOf(args)
    /\ \E exists \in BOOLEAN :
          /\ events' = Append(events, IF exists THEN "path_exists" ELSE "path_missing")
          /\ pc' = IF PathCheck(exists) THEN "path_ok" ELSE "exit_nopath"
    /\ UNCHANGED <<file, runs, args, config, runtime_config, remote_host,
                   consulted, local_project_root, remote_path, sync_result,
                   exec_call, prev,
                   file_at_start, aux, conc>>

\* line 210 left out
SetMruSkipped(cfg, host) == cfg

\* line 210
SetMru(cfg, host) == [cfg EXCEPT !.mru = host]

\* lines 202-203 and 210: args.remote_host is the value of a store_true option
HostFromFlag ==
    /\ pc = "path_ok"
    /\ args.remote_host
    /\ remote_host' = PyTrue
    /\ consulted' = {"flag"}
    /\ config' = SetMru(config, PyTrue)
    /\ pc' = "hosted"
    /\ UNCHANGED <<file, runs, args, runtime_config, local_path,
                   local_project_root, remote_path, events, sync_result,
                   exec_call, prev,
                   file_at_start, aux, conc>>

\* lines 204-205, 112-115 and 210
HostFromPrompt ==
    /\ pc = "path_ok"
    /\ ~args.remote_host
    /\ args.prompt
    /\ \E selected_host \in PromptHosts :
          /\ remote_host' = selected_host
          /\ config' = SetMru(config, selected_host)
    /\ consulted' = {"prompt"}
    /\ pc' = "hosted"
    /\ UNCHANGED <<file, runs, args, runtime_config, local_path,
                   local_project_root, remote_path, events, sync_result,
                   exec_call, prev,
                   file_at_start, aux, conc>>

\* lines 206-207 and 210
HostFromMru ==
    /\ pc = "path_ok"
    /\ ~args.remote_host
    /\ ~args.prompt
    /\ remote_host' = config.mru
    /\ consulted' = {"mru"}
    /\ config' = SetMru(config, config.mru)
    /\ pc' = "hosted"
    /\ UNCHANGED <<file, runs, args, runtime_config, local_path,
                   local_project_root, remote_path, events, sync_result,
                   exec_call, prev,
                   file_at_start, aux, conc>>

\* lines 212-217
Resolve ==
    /\ pc = "hosted"
    /\ \E typed \in (IF args.edit_args THEN EditInputs ELSE {None}) :
          LET r == update_config(runtime_config, config, args, remote_host,
                                 local_path, args.m, typed)
          IN /\ runtime_config' = r.rc
             /\ config' = r.config
    /\ pc' = "resolved"
    /\ UNCHANGED <<file, runs, args, local_path, remote_host, consulted,
                   local_project_root, remote_path, events, sync_result,
                   exec_call, prev,
                   file_at_start, aux, conc>>

\* lines 219 and 102-109: git's top level as a Path, or one of the fallbacks
\* (an entry of project_roots, or the file argument), which are not Paths
FindProjectRoot ==
    /\ pc = "resolved"
    /\ local_project_root' \in GitRoots \cup {NotAPath}
    /\ pc' = "rooted"
    /\ UNCHANGED <<file, runs, args, config, runtime_config, local_path,
                   remote_host, consulted, remote_path, events, sync_result,
                   exec_call, prev,
                   file_at_start, aux, conc>>

\* lines 222-223 with the write left out
PersistedFileNever(f, cfg, rc) == f

\* line 223 without the test of line 222
PersistedFileAlways(f, cfg, rc) == write_config(cfg)

\* lines 222-223 and 54-56: the content of the file after the step
PersistedFile(f, cfg, rc) ==
    IF rc.opts["allow_config_updates"] THEN write_config(cfg) ELSE f

Persist ==
    /\ pc = "rooted"
    /\ file' = PersistedFile(file, config, runtime_config)
    /\ events' = IF runtime_config.opts["allow_config_updates"]
                 THEN Append(events, "write") ELSE events
    /\ pc' = "persisted"
    /\ UNCHANGED <<runs, args, config, runtime_config, local_path, remote_host,
                   consulted, local_project_root, remote_path, sync_result,
                   exec_call, prev,
                   file_at_start, aux, conc>>

\* the dict that holds the list object runtime_config["rsync_options"]: the
\* last layer of the merge that has the key
RsyncOptionsOwner(cfg, host, key) ==
    IF "rsync_options" \in DOMAIN cfg.script_cfg[host].scripts[key] THEN "leaf"
    ELSE IF "rsync_options" \in DOMAIN cfg.script_cfg[host].opts THEN "host"
    ELSE IF "rsync_options" \in DOMAIN cfg.global THEN "global"
    ELSE "default"

\* line 122 without the two membership tests
AppendsVerboseUnchecked(rc) == rc.opts["verbose"]

\* lines 122-123: does the step append "--verbose"
AppendsVerbose(rc) ==
    /\ rc.opts["verbose"]
    /\ \A i \in 1..Len(rc.opts["rsync_options"]) :
          rc.opts["rsync_options"][i] \notin {"--verbose", "-v"}

\* lines 118-130: the list is appended to in place, so the dict of the
\* loaded document that owns the list sees the new element too; sysrsync
\* with strict=False returns normally when rsync exits non-zero ("failed")
\* and raises when rsync cannot be run ("raised")
Sync ==
    /\ pc = "persisted"
    /\ LET key == ConfigKey(local_path, args.m)
           owner == RsyncOptionsOwner(config, remote_host, key)
           opts1 == Append(runtime_config.opts["rsync_options"], "--verbose")
       IN IF AppendsVerbose(runtime_config)
          THEN /\ runtime_config' =
                    [runtime_config EXCEPT !.opts["rsync_options"] = opts1]
               /\ config' =
                    CASE owner = "leaf" ->
                           SetLeaf(config, remote_host, key, "rsync_options", opts1)
                      [] owner = "host" ->
                           [config EXCEPT !.script_cfg[remote_host].opts["rsync_options"] = opts1]
                      [] owner = "global" ->
                           [config EXCEPT !.global["rsync_options"] = opts1]
                      [] OTHER -> config
          ELSE UNCHANGED <<runtime_config, config>>
    /\ \E result \in {"ok", "failed", "raised"} :
          /\ sync_result' = result
          /\ pc' = IF result = "raised" THEN "crashed" ELSE "synced"
    /\ events' = Append(events, "sync")
    /\ UNCHANGED <<file, runs, args, local_path, remote_host, consulted,
                   local_project_root, remote_path, exec_call, prev,
                   file_at_start, aux, conc>>

\* lines 230-232: a project root that is not a Path has no attribute parent
MapPath ==
    /\ pc = "synced"
    /\ IF local_project_root = NotAPath
       THEN /\ pc' = "crashed"
            /\ UNCHANGED remote_path
       ELSE /\ remote_path' = get_remote_path(local_path, local_project_root,
                                              runtime_config.opts["remote_base_dir"])
            /\ pc' = "mapped"
    /\ UNCHANGED <<file, runs, args, config, runtime_config, local_path,
                   remote_host, consulted, local_project_root, events,
                   sync_result, exec_call, prev,
                   file_at_start, aux, conc>>

\* runtime_config["args"] if "args" in runtime_config else ""
ArgsOf(rc) == IF "args" \in DOMAIN rc.opts THEN rc.opts["args"] ELSE ""

\* lines 234-238 and 147-152
ExecuteModule ==
    /\ pc = "mapped"
    /\ TruthyPath(args.m)
    /\ exec_call' = [kind |-> "module", host |-> remote_host, dir |-> remote_path,
                     target |-> args.m,
                     interpreter |-> runtime_config.opts["interpreter"],
                     args |-> ArgsOf(runtime_config)]
    /\ events' = Append(events, "exec_module")
    /\ pc' = "done"
    /\ UNCHANGED <<file, runs, args, config, runtime_config, local_path,
                   remote_host, consulted, local_project_root, remote_path,
                   sync_result, prev,
                   file_at_start, aux, conc>>

\* lines 138-139 with the selector dropped
ScriptPathNoTest(rp, test) == rp

\* lines 138-139
ScriptPath(rp, test) ==
    IF TruthyPath(test) THEN PathOf(rp \o <<":", ":">> \o test) ELSE rp

\* lines 239-243 and 137-144
ExecuteScript ==
    /\ pc = "mapped"
    /\ ~TruthyPath(args.m)
    /\ exec_call' = [kind |-> "script", host |-> remote_host,
                     dir |-> Parent(ScriptPath(remote_path, args.test)),
                     target |-> ScriptPath(remote_path, args.test),
                     interpreter |-> runtime_config.opts["interpreter"],
                     args |-> ArgsOf(runtime_config)]
    /\ events' = Append(events, "exec_script")
    /\ pc' = "done"
    /\ UNCHANGED <<file, runs, args, config, runtime_config, local_path,
                   remote_host, consulted, local_project_root, remote_path,
                   sync_result, prev,
                   file_at_start, aux, conc>>

Terminated == pc \in {"done", "crashed", "usage_error", "exit_nopath"}

\* has this run written the configuration file
Wrote == \E i \in 1..Len(events) : events[i] = "write"

\* what the run that ends leaves for the next one to be compared with: its
\* host and target and, when it persisted them, the -a and -i values it was
\* given (None when not given, or when the args prompt replaced -a)
Remember ==
    IF Wrote /\ (Truthy(args.args) \/ Truthy(args.interpreter))
    THEN [set |-> TRUE, host |-> remote_host,
          key |-> ConfigKey(local_path, args.m),
          args |-> IF Truthy(args.args) /\ ~args.edit_args THEN args.args ELSE None,
          interpreter |-> IF Truthy(args.interpreter) THEN args.interpreter ELSE None]
    ELSE NoPrev

\* the host and target of the run that ends, when it wrote the file
LastRun ==
    IF Wrote
    THEN [kind |-> "last", host |-> remote_host, key |-> ConfigKey(local_path, args.m)]
    ELSE NoAux

\* the process ends and the program is invoked again
NextRun ==
    /\ Terminated
    /\ runs < MaxRuns
    /\ runs' = runs + 1
    /\ prev' = Remember
    /\ pc' = "start"
    /\ args' = NoArgs
    /\ config' = NoConfig
    /\ runtime_config' = NoRuntime
    /\ local_path' = NoPath
    /\ remote_host' = None
    /\ consulted' = {}
    /\ local_project_root' = NoPath
    /\ remote_path' = NoPath
    /\ events' = <<>>
    /\ sync_result' = None
    /\ exec_call' = NoExec
    /\ file_at_start' = file
    /\ aux' = LastRun
    /\ UNCHANGED <<file, conc>>

Next ==
    \/ GetArgs
    \/ ReadConfig
    \/ ResolveLocalPath
    \/ HostFromFlag
    \/ HostFromPrompt
    \/ HostFromMru
    \/ Resolve
    \/ FindProjectRoot
    \/ Persist
    \/ Sync
    \/ MapPath
    \/ ExecuteModule
    \/ ExecuteScript
    \/ NextRun

Spec == Init /\ [][Next]_vars

(* ------------------------- PathMapper on its own ---------------------- *)
\* depth of the generated project roots and of the paths below them
MaxDepth == 2
PathNames == {<<"u">>, <<"p">>}
RemoteBases == {<<"/", "t", "m", "p">>, <<"/", "u">>}

\* the sequences of at most n path names
NameSeqs(n) == UNION {[1..k -> PathNames] : k \in 0..n}
\* the absolute path with the given component names
AbsPath(names) == <<"/">> \o Join(names)

PathInit ==
    /\ \E r \in NameSeqs(MaxDepth) \ {<<>>}, t \in NameSeqs(MaxDepth) :
          /\ local_project_root = AbsPath(r)
          /\ local_path = AbsPath(r \o t)
    /\ \E b \in RemoteBases :
          runtime_config = [opts |-> [remote_base_dir |-> b], hasScripts |-> FALSE]
    /\ pc = "map_input"
    /\ file = NoConfig
    /\ runs = 1
    /\ args = NoArgs
    /\ config = NoConfig
    /\ remote_host = None
    /\ consulted = {}
    /\ remote_path = NoPath
    /\ events = <<>>
    /\ sync_result = None
    /\ exec_call = NoExec
    /\ prev = NoPrev
    /\ file_at_start = file
    /\ aux = NoAux
    /\ conc = NoConc

\* lines 155-158 applied to the inputs
MapOnly ==
    /\ pc = "map_input"
    /\ remote_path' = get_remote_path(local_path, local_project_root,
                                      runtime_config.opts["remote_base_dir"])
    /\ pc' = "map_output"
    /\ UNCHANGED <<file, runs, args, config, runtime_config, local_path,
                   remote_host, consulted, local_project_root, events,
                   sync_result, exec_call, prev,
                   file_at_start, aux, conc>>

PathNext == MapOnly

PathSpec == PathInit /\ [][PathNext]_vars

(* ------------------------- properties --------------------------------- *)
\* the target key of the run in progress
CurKey == ConfigKey(local_path, args.m)

\* the layers of the document as loaded, read off the file: the file is
\* not written between read_config and the persist step
FileGlobal == file.global
FileHostPresent == remote_host \in DOMAIN file.script_cfg
FileHost == IF FileHostPresent THEN file.script_cfg[remote_host].opts ELSE EmptyDict
FileLeafPresent ==
    /\ FileHostPresent
    /\ file.script_cfg[remote_host].hasScripts
    /\ CurKey \in DOMAIN file.script_cfg[remote_host].scripts
FileLeaf == IF FileLeafPresent THEN file.script_cfg[remote_host].scripts[CurKey] ELSE EmptyDict

OptionKeys == (DOMAIN DEFAULT_CONFIG) \cup {"args"}

\* does a command line field overwrite key k (lines 73-82)
CliOverrides(k) ==
    \/ k = "verbose"
    \/ k = "prompt" /\ args.prompt
    \/ k = "args" /\ (Truthy(args.args) \/ args.edit_args)
    \/ k = "interpreter" /\ Truthy(args.interpreter)

\* key k of the runtime_config is v
RcIs(k, v) == k \in DOMAIN runtime_config.opts /\ runtime_config.opts[k] = v

\* C1: after resolve, every option key that no command line field
\* overwrites has the value of the most specific layer that sets it: the
\* target leaf, else the host entry, else global, else the built-in
\* defaults; a key that no layer sets is absent.
C1_MergePrecedence ==
    pc = "resolved" =>
        \A k \in OptionKeys :
            ~CliOverrides(k) =>
                IF k \in DOMAIN FileLeaf THEN RcIs(k, FileLeaf[k])
                ELSE IF k \in DOMAIN FileHost THEN RcIs(k, FileHost[k])
                ELSE IF k \in DOMAIN FileGlobal THEN RcIs(k, FileGlobal[k])
                ELSE IF k \in DOMAIN DEFAULT_CONFIG THEN RcIs(k, DEFAULT_CONFIG[k])
                ELSE k \notin DOMAIN runtime_config.opts

\* four layers set interpreter to four distinct values and the target wins
C1_Witness ==
    /\ pc = "resolved"
    /\ ~CliOverrides("interpreter")
    /\ "interpreter" \in DOMAIN FileLeaf
    /\ "interpreter" \in DOMAIN FileHost
    /\ "interpreter" \in DOMAIN FileGlobal
    /\ Cardinality({FileLeaf["interpreter"], FileHost["interpreter"],
                    FileGlobal["interpreter"], DEFAULT_CONFIG["interpreter"]}) = 4
    /\ runtime_config.opts["interpreter"] = FileLeaf["interpreter"]

\* C2: when the previous run resolved the same host and target with -a a
\* (resp. -i i) and persisted, this run, given no -a and no -e (resp. no
\* -i), resolves args to a (resp. interpreter to i).
C2_StickyWrites ==
    (pc = "resolved" /\ prev.set /\ prev.host = remote_host /\ prev.key = CurKey) =>
        /\ (prev.args # None /\ ~Truthy(args.args) /\ ~args.edit_args)
              => RcIs("args", prev.args)
        /\ (prev.interpreter # None /\ ~Truthy(args.interpreter))
              => RcIs("interpreter", prev.interpreter)

\* no option of the command line overlays a key of the runtime_config
NoCliOverrides == OptionsOf(args) \cap {"a", "i", "e", "p", "v"} = {}

\* update_config applied again, to the document as the first call left it
SecondResolve ==
    update_config([opts |-> Merge(DEFAULT_CONFIG, config.global), hasScripts |-> FALSE],
                  config, args, remote_host, local_path, args.m, None)

\* C3: resolving twice in a row without command line overrides returns
\* the same mapping: the same keys and the same value for every key.
C3_ResolveIdempotent ==
    (pc = "resolved" /\ NoCliOverrides) =>
        /\ RuntimeKeys(SecondResolve.rc) = RuntimeKeys(runtime_config)
        /\ SecondResolve.rc.opts = runtime_config.opts

HasEvent(e) == \E i \in 1..Len(events) : events[i] = e
\* event e occurs, and before every occurrence of event f
Precedes(e, f) ==
    \E i \in 1..Len(events) :
        events[i] = e /\ \A j \in 1..Len(events) : events[j] = f => i < j

\* the target leaf of the run in progress, in the file
FileLeafNow == file.script_cfg[JsonKey(remote_host)].scripts[CurKey]

\* the file holds what the run resolved: the host as mru_interpreter and
\* the resolved args in the target leaf
FileHoldsRun ==
    /\ file.mru = remote_host
    /\ JsonKey(remote_host) \in DOMAIN file.script_cfg
    /\ file.script_cfg[JsonKey(remote_host)].hasScripts
    /\ CurKey \in DOMAIN file.script_cfg[JsonKey(remote_host)].scripts
    /\ "args" \in DOMAIN runtime_config.opts
          => /\ "args" \in DOMAIN FileLeafNow
             /\ FileLeafNow["args"] = runtime_config.opts["args"]

PersistDue ==
    /\ pc \in {"persisted", "synced", "mapped", "done"} \/ (pc = "crashed" /\ HasEvent("sync"))
    /\ runtime_config.opts["allow_config_updates"]

\* C4: with allow_config_updates true the file is written before the sync
\* starts, so from then on, whatever the sync and the execute do, the file
\* holds the run's host and args; and once written the file is not
\* modified again by the run.
C4_PersistBeforeRemote ==
    /\ [](PersistDue => (HasEvent("write") /\ (HasEvent("sync") => Precedes("write", "sync"))
                         /\ FileHoldsRun))
    /\ [][HasEvent("write") => file' = file]_vars

\* the sync raised after a run with -r and -a: the file has both already
C4_Witness ==
    /\ pc = "crashed"
    /\ sync_result = "raised"
    /\ runtime_config.opts["allow_config_updates"]
    /\ args.args = "--foo"
    /\ remote_host = PyTrue
    /\ file.mru = PyTrue
    /\ FileLeafNow["args"] = "--foo"

\* C5: once the host of the run is determined the document's
\* mru_interpreter is that host, whichever path selected it, and after the
\* persist the file's mru_interpreter is the host used for sync and execute.
C5_MruIsChosenHost ==
    /\ remote_host # None => config.mru = remote_host
    /\ HasEvent("write") => file.mru = remote_host
    /\ (HasEvent("write") /\ exec_call.kind # None) => exec_call.host = file.mru

\* the prompt selected a host other than the persisted one; it is in the file
C5_Witness ==
    /\ pc = "done"
    /\ consulted = {"prompt"}
    /\ remote_host = "h2"
    /\ HasEvent("write")
    /\ file.mru = "h2"
    /\ exec_call.host = "h2"

\* C6: with -r the host is the flag's value, a host name, and only the
\* flag is consulted; else with -p the host is the one selected at the
\* prompt; else it is the persisted mru; exactly one source is consulted.
C6_HostDetermination ==
    remote_host # None =>
        /\ Cardinality(consulted) = 1
        /\ args.remote_host => (consulted = {"flag"} /\ remote_host # PyTrue)
        /\ (~args.remote_host /\ args.prompt)
              => (consulted = {"prompt"} /\ remote_host \in PromptHosts)
        /\ (~args.remote_host /\ ~args.prompt)
              => (consulted = {"mru"} /\ (~HasEvent("write") => remote_host = file.mru))

\* the merge of the four layers, before the command line is overlaid
MergedLayers == Merge(Merge(Merge(DEFAULT_CONFIG, FileGlobal), FileHost), FileLeaf)
\* key k is the same in the runtime_config as in the merged layers
SameAsMerged(k) ==
    IF k \in DOMAIN MergedLayers THEN RcIs(k, MergedLayers[k])
    ELSE k \notin DOMAIN runtime_config.opts

\* C7: a field that is not given on the command line leaves the merged
\* value of its key; a field that is given overrides it.
C7_CliOverlayOnlyWhenGiven ==
    pc = "resolved" =>
        /\ IF args.verbose THEN RcIs("verbose", TRUE) ELSE SameAsMerged("verbose")
        /\ IF args.prompt THEN RcIs("prompt", TRUE) ELSE SameAsMerged("prompt")
        /\ ~args.edit_args =>
              IF args.args # None THEN RcIs("args", args.args) ELSE SameAsMerged("args")
        /\ IF args.interpreter # None THEN RcIs("interpreter", args.interpreter)
           ELSE SameAsMerged("interpreter")

\* C8: when the local path does not exist the run ends there: the document
\* is as loaded, the file is not written, no host is chosen and neither
\* sync nor execute is invoked.
C8_MissingPathFatal ==
    HasEvent("path_missing") =>
        /\ pc = "exit_nopath"
        /\ events = <<"path_missing">>
        /\ config = read_config(file)
        /\ remote_host = None
        /\ sync_result = None
        /\ exec_call = NoExec

C8_Witness ==
    /\ pc = "exit_nopath"
    /\ HasEvent("path_missing")
    /\ args.m # NoPath
    /\ config = read_config(file)

BothOrNeither == (args.source_file # NoPath) = (args.m # NoPath)

\* C9: a command line with both a source file and a module, or with
\* neither, is rejected with nothing loaded, resolved, written, synced or
\* executed; a run that proceeds has exactly one of the two.
C9_ExclusiveTarget ==
    pc # "start" =>
        IF BothOrNeither
        THEN /\ pc = "usage_error"
             /\ config = NoConfig
             /\ runtime_config = NoRuntime
             /\ events = <<>>
             /\ remote_host = None
        ELSE pc # "usage_error"

C9_Witness ==
    /\ pc = "usage_error"
    /\ args.source_file # NoPath
    /\ args.m # NoPath
    /\ config = NoConfig

\* the path of lp relative to the parent of root, after remote_base_dir
ExpectedRemotePath(lp, root, remote_base_dir) ==
    LET skip == Len(Parts(Parent(root), <<>>))
        rel == SubSeq(Parts(lp, <<>>), skip + 1, Len(Parts(lp, <<>>)))
    IN PathOf(remote_base_dir \o <<"/">> \o Join(rel))

\* C10: for a local path under the project root, get_remote_path is
\* remote_base_dir followed by the path relative to the root's parent.
C10_RemotePath ==
    pc = "map_output" =>
        remote_path = ExpectedRemotePath(local_path, local_project_root,
                                         runtime_config.opts["remote_base_dir"])

(* ------------------------- the sync step on its own ------------------- *)
\* length of the generated option lists, and number of sync invocations
MaxOptions == 2
MaxSyncs == 3
RsyncFlags == {"--archive", "--delete", "-v", "--verbose"}
OptionLists == UNION {[1..k -> RsyncFlags] : k \in 0..MaxOptions}

SyncInit ==
    /\ \E l \in OptionLists, v \in BOOLEAN :
          /\ runtime_config = [opts |-> [verbose |-> v, rsync_options |-> l],
                               hasScripts |-> FALSE]
          /\ aux = [kind |-> "sync", initial |-> l, calls |-> 0]
    /\ pc = "sync_only"
    /\ file = NoConfig
    /\ runs = 1
    /\ args = NoArgs
    /\ config = NoConfig
    /\ local_path = NoPath
    /\ remote_host = None
    /\ consulted = {}
    /\ local_project_root = NoPath
    /\ remote_path = NoPath
    /\ events = <<>>
    /\ sync_result = None
    /\ exec_call = NoExec
    /\ prev = NoPrev
    /\ file_at_start = file
    /\ conc = NoConc

\* lines 122-123 applied once more to the same runtime_config
SyncOnly ==
    /\ pc = "sync_only"
    /\ aux.calls < MaxSyncs
    /\ runtime_config' =
          IF AppendsVerbose(runtime_config)
          THEN [runtime_config EXCEPT !.opts["rsync_options"] =
                    Append(runtime_config.opts["rsync_options"], "--verbose")]
          ELSE runtime_config
    /\ aux' = [aux EXCEPT !.calls = aux.calls + 1]
    /\ UNCHANGED <<file, pc, runs, args, config, local_path, remote_host,
                   consulted, local_project_root, remote_path, events,
                   sync_result, exec_call, prev, file_at_start, conc>>

SyncNext == SyncOnly

SyncSpec == SyncInit /\ [][SyncNext]_vars

\* is a verbose-equivalent flag in the list
HasVerboseFlag(l) == \E i \in 1..Len(l) : l[i] \in {"--verbose", "-v"}

\* C11: however often the sync step runs on one runtime_config, the
\* option list is the initial list, followed by one "--verbose" exactly
\* when verbose is set, the step has run and the initial list had neither
\* "--verbose" nor "-v"; with verbose unset the list is the initial list.
C11_VerboseAppendedOnce ==
    aux.kind = "sync" =>
        LET cur == runtime_config.opts["rsync_options"]
            appended == /\ runtime_config.opts["verbose"]
                        /\ aux.calls >= 1
                        /\ ~HasVerboseFlag(aux.initial)
        IN cur = IF appended THEN Append(aux.initial, "--verbose") ELSE aux.initial

\* the step ran more than once with verbose set and appended once
C11_Witness ==
    /\ aux.kind = "sync"
    /\ aux.calls >= 2
    /\ runtime_config.opts["verbose"]
    /\ runtime_config.opts["rsync_options"] = Append(aux.initial, "--verbose")

(* ------------------------- properties of the whole run ---------------- *)
\* how often this run has written the configuration file
WriteCount == Cardinality({i \in 1..Len(events) : events[i] = "write"})

\* the persist step of this run is behind it
PastPersist ==
    pc \in {"persisted", "synced", "mapped", "done"} \/ (pc = "crashed" /\ HasEvent("sync"))

\* C12: a run writes the configuration file at most once; past the
\* persist step it has written it exactly once, before the sync, when
\* allow_config_updates resolved to true, and not at all when it resolved
\* to false; a run that has not written leaves the file as it found it.
C12_PersistGatedOnce ==
    /\ WriteCount <= 1
    /\ PastPersist =>
          IF runtime_config.opts["allow_config_updates"]
          THEN /\ WriteCount = 1
               /\ HasEvent("sync") => Precedes("write", "sync")
          ELSE WriteCount = 0
    /\ WriteCount = 0 => file = file_at_start

\* a run with allow_config_updates false ended with a changed document in
\* memory and the file as it was
C12_Witness ==
    /\ pc = "done"
    /\ ~runtime_config.opts["allow_config_updates"]
    /\ config # read_config(file_at_start)
    /\ file = file_at_start

\* the remote-execute invocations of this run
ExecCount ==
    Cardinality({i \in 1..Len(events) : events[i] \in {"exec_module", "exec_script"}})

\* C13: a run invokes no remote execute before the dispatch step and
\* exactly one in it, after the sync: run-module with the remote directory
\* and the module name for a module target, else run-script with the mapped
\* remote path, followed by "::" and the selector exactly when a test
\* selector was given; with the resolved interpreter and the resolved args,
\* "" when args is absent.
C13_Dispatch ==
    /\ pc # "done" => (ExecCount = 0 /\ exec_call = NoExec)
    /\ pc = "done" =>
          /\ ExecCount = 1
          /\ Precedes("sync", IF args.m # NoPath THEN "exec_module" ELSE "exec_script")
          /\ exec_call.host = remote_host
          /\ exec_call.interpreter = runtime_config.opts["interpreter"]
          /\ exec_call.args = IF "args" \in DOMAIN runtime_config.opts
                              THEN runtime_config.opts["args"] ELSE ""
          /\ IF args.m # NoPath
             THEN /\ exec_call.kind = "module"
                  /\ HasEvent("exec_module")
                  /\ exec_call.dir = remote_path
                  /\ exec_call.target = args.m
             ELSE /\ exec_call.kind = "script"
                  /\ HasEvent("exec_script")
                  /\ exec_call.target =
                        IF args.test # NoPath
                        THEN remote_path \o <<":", ":">> \o args.test
                        ELSE remote_path

\* a script run with a test selector reached the dispatch
C13_Witness ==
    /\ pc = "done"
    /\ exec_call.kind = "script"
    /\ args.test # NoPath
    /\ exec_call.target = remote_path \o <<":", ":">> \o args.test
    /\ ExecCount = 1

\* C14: a sync that does not succeed ends the run there, without a
\* remote execute; a remote execute happens only after a successful sync.
C14_SyncFailureFatal ==
    /\ sync_result \in {"failed", "raised"} => (pc = "crashed" /\ ExecCount = 0)
    /\ ExecCount > 0 => sync_result = "ok"

\* update_config has returned in this run
PastResolve ==
    pc \in {"resolved", "rooted", "persisted", "synced", "mapped", "done", "crashed"}

\* C15: once update_config has returned, the document has the path
\* script_cfg[host]["scripts"][key], whatever auto_add_hosts is and whether
\* or not the host or the target had an entry, and the leaf holds the
\* resolved interpreter and, when resolved, args.
C15_LeafExists ==
    PastResolve =>
        /\ remote_host \in DOMAIN config.script_cfg
        /\ config.script_cfg[remote_host].hasScripts
        /\ CurKey \in DOMAIN config.script_cfg[remote_host].scripts
        /\ LET leaf == config.script_cfg[remote_host].scripts[CurKey]
           IN /\ "interpreter" \in DOMAIN leaf
              /\ leaf["interpreter"] = runtime_config.opts["interpreter"]
              /\ "args" \in DOMAIN runtime_config.opts
                    => ("args" \in DOMAIN leaf /\ leaf["args"] = runtime_config.opts["args"])

\* a host without an entry in the file, auto_add_hosts false: the path is there
C15_Witness ==
    /\ pc = "resolved"
    /\ ~runtime_config.opts["auto_add_hosts"]
    /\ remote_host \notin DOMAIN file_at_start.script_cfg
    /\ remote_host \in DOMAIN config.script_cfg
    /\ CurKey \in DOMAIN config.script_cfg[remote_host].scripts

\* the document as this run loaded it
LoadedDocument == read_config(file_at_start)

\* the entry of host h in document d, an entry without keys when there is none
EntryOf(d, h) == IF h \in DOMAIN d.script_cfg THEN d.script_cfg[h] ELSE NoHostEntry

\* the leaf of target k in a host entry, a leaf without keys when there is none
LeafOf(e, k) == IF k \in DOMAIN e.scripts THEN e.scripts[k] ELSE EmptyDict

\* document d1 differs from d0 at most in mru, in the keys args and
\* interpreter of the leaf of (h1, key) and in empty mappings created on the
\* path to that leaf; h0 is the key of that host in d0
FrameHolds(d0, d1, h0, h1, key) ==
    /\ d1.global = d0.global
    /\ DOMAIN d1.script_cfg \subseteq DOMAIN d0.script_cfg \cup {h1}
    /\ \A h \in DOMAIN d0.script_cfg :
          h \notin {h0, h1} => (h \in DOMAIN d1.script_cfg
                                /\ d1.script_cfg[h] = d0.script_cfg[h])
    /\ h1 \in DOMAIN d1.script_cfg
    /\ LET e0 == EntryOf(d0, h0)
           e1 == d1.script_cfg[h1]
       IN /\ e1.opts = e0.opts
          /\ DOMAIN e1.scripts = DOMAIN e0.scripts \cup {key}
          /\ \A k \in DOMAIN e0.scripts : k # key => e1.scripts[k] = e0.scripts[k]
          /\ DOMAIN LeafOf(e0, key) \subseteq DOMAIN e1.scripts[key]
          /\ \A k \in DOMAIN e1.scripts[key] \ {"args", "interpreter"} :
                /\ k \in DOMAIN LeafOf(e0, key)
                /\ e1.scripts[key][k] = LeafOf(e0, key)[k]

\* the frame on the document in memory once update_config has returned
FrameInMemory ==
    PastResolve => FrameHolds(LoadedDocument, config, remote_host, remote_host, CurKey)

\* the frame on the file once the run has written it
FrameOnFile ==
    Wrote => FrameHolds(file_at_start, file, JsonKey(remote_host), JsonKey(remote_host), CurKey)

\* the frame on the document in memory up to the end of resolution and persist
FrameUntilPersist ==
    pc \in {"resolved", "rooted", "persisted"}
        => FrameHolds(LoadedDocument, config, remote_host, remote_host, CurKey)

\* C16: a run changes in the document only mru, the keys args and
\* interpreter of the leaf of its host and target, and empty mappings created
\* on the path to it; global, the host's other keys, other leaves and other
\* hosts stay as loaded, in memory and in the file the run writes.
C16_WriteBackFrame == FrameInMemory /\ FrameOnFile

\* every host entry and every target leaf of document d0 is in document d1
KeepsEntries(d0, d1) ==
    \A h \in DOMAIN d0.script_cfg :
        /\ h \in DOMAIN d1.script_cfg
        /\ DOMAIN d0.script_cfg[h].scripts \subseteq DOMAIN d1.script_cfg[h].scripts

\* C17: the file keeps global, and every host entry and target leaf the file
\* had when a run started is still in the file during and after the run.
C17_MonotoneDocument ==
    /\ "global" \in DOMAIN file
    /\ KeepsEntries(file_at_start, file)

\* the same for the runs whose host is a string (not the True of -r)
MonotoneForStringHosts ==
    remote_host # PyTrue => KeepsEntries(file_at_start, file)

(* ------------------------- the target key on its own ------------------ *)
\* two invocations, each with a local path and a module (or none); the
\* strings are made of the letter a and the separator token

MaxPathPieces == 3
MaxModulePieces == 1
KeyPieces == {<<"a">>, ModSep}

\* the pieces of ps one after the other
RECURSIVE Concat(_)
Concat(ps) == IF ps = <<>> THEN <<>> ELSE Head(ps) \o Concat(Tail(ps))

\* the strings made of 1 to n pieces
PieceStrings(n) == {Concat(ps) : ps \in UNION {[1..k -> KeyPieces] : k \in 1..n}}
KeyPaths == {<<"/">> \o x : x \in PieceStrings(MaxPathPieces)}
KeyModules == PieceStrings(MaxModulePieces) \cup {NoPath}
Invocations == [lp : KeyPaths, m : KeyModules]

KeyInit ==
    /\ \E i1 \in Invocations, i2 \in Invocations :
          aux = [kind |-> "key", first |-> i1, second |-> i2,
                 key1 |-> NoPath, key2 |-> NoPath]
    /\ pc = "key_input"
    /\ file = NoConfig
    /\ runs = 1
    /\ args = NoArgs
    /\ config = NoConfig
    /\ runtime_config = NoRuntime
    /\ local_path = NoPath
    /\ remote_host = None
    /\ consulted = {}
    /\ local_project_root = NoPath
    /\ remote_path = NoPath
    /\ events = <<>>
    /\ sync_result = None
    /\ exec_call = NoExec
    /\ prev = NoPrev
    /\ file_at_start = file
    /\ conc = NoConc

\* line 60 applied to each of the two invocations
KeyOnly ==
    /\ pc = "key_input"
    /\ aux' = [aux EXCEPT !.key1 = ConfigKey(aux.first.lp, aux.first.m),
                          !.key2 = ConfigKey(aux.second.lp, aux.second.m)]
    /\ pc' = "key_output"
    /\ UNCHANGED <<file, runs, args, config, runtime_config, local_path,
                   remote_host, consulted, local_project_root, remote_path,
                   events, sync_result, exec_call, prev, file_at_start, conc>>

KeyNext == KeyOnly

KeySpec == KeyInit /\ [][KeyNext]_vars

\* the same path and module give the same key
KeyDeterministic ==
    (pc = "key_output" /\ aux.first = aux.second) => aux.key1 = aux.key2

\* C18: two invocations with the same local path and module have the same
\* target key, and two that differ in path or module have different keys.
C18_KeyInjective ==
    pc = "key_output" => (aux.key1 = aux.key2 <=> aux.first = aux.second)

(* ------------------------- two invocations at once -------------------- *)
\* two processes run main on the same configuration file; there is no lock.
\* write_config is open(path, 'w'), which empties the file, followed by the
\* dump that writes the text from offset 0 of the writer's own descriptor.

Procs == {1, 2}
\* the file between an open for writing and the first dump
Truncated == [kind |-> "empty"]
\* the file after a dump over a longer text dumped by the other process since
\* this one's open: the new text followed by the tail of the old one
Torn == [kind |-> "torn"]

\* the command lines of the two processes
ConcArgvs == {a \in Argvs : /\ ParseAccepts(a.source_file, a.m)
                            /\ OptionsOf(a) \in {{}, {"a"}, {"p"}}}
\* the files they may find
ConcFiles == {f \in InitFiles : f.global \in {EmptyDict, [allow_config_updates |-> FALSE]}}

NoProc == [pc |-> "start", args |-> NoArgs, config |-> NoConfig,
           runtime_config |-> NoRuntime, remote_host |-> None]

ConcInit ==
    /\ file \in ConcFiles
    /\ \E a1 \in ConcArgvs, a2 \in ConcArgvs :
          conc = [kind |-> "conc",
                  procs |-> [i \in Procs |->
                               [NoProc EXCEPT !.args = IF i = 1 THEN a1 ELSE a2]],
                  log |-> <<>>]
    /\ pc = "conc"
    /\ runs = 1
    /\ args = NoArgs
    /\ config = NoConfig
    /\ runtime_config = NoRuntime
    /\ local_path = NoPath
    /\ remote_host = None
    /\ consulted = {}
    /\ local_project_root = NoPath
    /\ remote_path = NoPath
    /\ events = <<>>
    /\ sync_result = None
    /\ exec_call = NoExec
    /\ prev = NoPrev
    /\ file_at_start = file
    /\ aux = NoAux

ConcFrame ==
    UNCHANGED <<pc, runs, args, config, runtime_config, local_path, remote_host,
                consulted, local_project_root, remote_path, events, sync_result,
                exec_call, prev, file_at_start, aux>>

\* process i moves to the given local state; the step is logged
Step(i, p, what) ==
    conc' = [conc EXCEPT !.procs[i] = p, !.log = Append(conc.log, <<what, i>>)]

\* lines 194-196: json.load raises on a file that is empty or torn
CLoad(i) ==
    LET p == conc.procs[i]
    IN /\ p.pc = "start"
       /\ IF file \in {Truncated, Torn}
          THEN Step(i, [p EXCEPT !.pc = "crashed"], "load_error")
          ELSE Step(i, [p EXCEPT !.pc = "loaded",
                                 !.config = read_config(file),
                                 !.runtime_config =
                                     [opts |-> Merge(DEFAULT_CONFIG, read_config(file).global),
                                      hasScripts |-> FALSE]], "load")
       /\ UNCHANGED file
       /\ ConcFrame

\* lines 198-217 for a local path that exists: the host, mru and update_config
CResolve(i) ==
    LET p == conc.procs[i]
    IN /\ p.pc = "loaded"
       /\ \E host \in (IF p.args.remote_host THEN {PyTrue}
                       ELSE IF p.args.prompt THEN PromptHosts
                       ELSE {p.config.mru}) :
             LET r == update_config(p.runtime_config, SetMru(p.config, host), p.args,
                                    host, LocalPathOf(p.args), p.args.m, None)
             IN Step(i, [p EXCEPT !.pc = "resolved", !.remote_host = host,
                                  !.config = r.config, !.runtime_config = r.rc],
                     "resolve")
       /\ UNCHANGED file
       /\ ConcFrame

\* lines 222 and 55: the open empties the file; without allow_config_updates
\* the process goes on to the remote steps, which do not touch the file
COpen(i) ==
    LET p == conc.procs[i]
    IN /\ p.pc = "resolved"
       /\ IF p.runtime_config.opts["allow_config_updates"]
          THEN /\ file' = Truncated
               /\ Step(i, [p EXCEPT !.pc = "opened"], "open")
          ELSE /\ UNCHANGED file
               /\ Step(i, [p EXCEPT !.pc = "done"], "skip")
       /\ ConcFrame

\* what the file holds after process i's dump of text new over content old
DumpOutcomes(old, new) ==
    IF old = Truncated \/ old = new THEN {new} ELSE {new, Torn}

\* line 56 and the close: the text goes to offset 0; when the other process
\* has dumped since this one's open, the bytes beyond the new text stay, so
\* the result is the new document or a torn file, by the lengths of the texts
CDump(i) ==
    LET p == conc.procs[i]
    IN /\ p.pc = "opened"
       /\ file' \in DumpOutcomes(file, write_config(p.config))
       /\ Step(i, [p EXCEPT !.pc = "done"], "dump")
       /\ ConcFrame

ConcNext == \E i \in Procs : CLoad(i) \/ CResolve(i) \/ COpen(i) \/ CDump(i)

ConcSpec == ConcInit /\ [][ConcNext]_vars

\* the position in the log of process i's step of the given kind, 0 if none
IdxOf(what, i) ==
    IF \E n \in 1..Len(conc.log) : conc.log[n] = <<what, i>>
    THEN CHOOSE n \in 1..Len(conc.log) : conc.log[n] = <<what, i>>
    ELSE 0

BothEnded == \A i \in Procs : conc.procs[i].pc \in {"done", "crashed"}
Dumped(i) == IdxOf("dump", i) > 0
\* both processes loaded the file before either began to write it
BothLoadedFirst ==
    \A i \in Procs, j \in Procs :
        /\ IdxOf("load", i) > 0
        /\ IdxOf("open", j) > 0 => IdxOf("load", i) < IdxOf("open", j)
LastDumper ==
    CHOOSE i \in Procs : Dumped(i) /\ \A j \in Procs : IdxOf("dump", j) <= IdxOf("dump", i)
\* process j loaded the file after process i had written it
RanAfter(j, i) == Dumped(i) /\ IdxOf("load", j) > IdxOf("dump", i)

KeyOfProc(i) == ConfigKey(LocalPathOf(conc.procs[i].args), conc.procs[i].args.m)
\* the file has the leaf that process i resolved
LeafInFile(i) ==
    /\ JsonKey(conc.procs[i].remote_host) \in DOMAIN file.script_cfg
    /\ KeyOfProc(i) \in DOMAIN file.script_cfg[JsonKey(conc.procs[i].remote_host)].scripts

\* both loaded first and both wrote: the file is the last writer's document
LastWriterWins ==
    (BothEnded /\ BothLoadedFirst /\ \A i \in Procs : Dumped(i))
        => file = write_config(conc.procs[LastDumper].config)

\* the same when the file did not end up torn
LastWriterWinsUnlessTorn ==
    (BothEnded /\ BothLoadedFirst /\ (\A i \in Procs : Dumped(i)) /\ file # Torn)
        => file = write_config(conc.procs[LastDumper].config)

\* one run after the other: the file has both leaves and the later host as mru
SequentialKeepsBoth ==
    \A i \in Procs, j \in Procs :
        (BothEnded /\ RanAfter(j, i) /\ Dumped(j))
            => /\ LeafInFile(i)
               /\ LeafInFile(j)
               /\ file.mru = conc.procs[j].remote_host

\* the earlier writer's leaf and mru are not in the file
LostUpdate ==
    /\ BothEnded
    /\ BothLoadedFirst
    /\ \A i \in Procs : Dumped(i)
    /\ file # Torn
    /\ \E i \in Procs : i # LastDumper /\ ~LeafInFile(i)
                        /\ file.mru # conc.procs[i].remote_host

\* C19: when both invocations load the file before either persists, the
\* file ends as the document of the invocation that persisted last; when one
\* runs after the other, both updates are in the file.
C19_LastWriterWins == LastWriterWins /\ SequentialKeepsBoth

(* ------------------------- the same target again ---------------------- *)
\* this run has the host and target of the run before it, which wrote the
\* file, and has none of -a, -i, -e
SameTargetAgain ==
    /\ aux.kind = "last"
    /\ remote_host = aux.host
    /\ CurKey = aux.key
    /\ ~Truthy(args.args)
    /\ ~Truthy(args.interpreter)
    /\ ~args.edit_args

\* the file stays what the run before wrote
FileFixedPoint == (SameTargetAgain /\ PastResolve) => file = file_at_start

\* the document in memory, as it would be written, is what the run before wrote
DocumentFixedPoint ==
    (SameTargetAgain /\ PastResolve) => write_config(config) = file_at_start

\* the same for hosts that are strings, up to the write of the file
FixedPointForStringHosts ==
    (SameTargetAgain /\ remote_host # PyTrue /\ pc \in {"resolved", "rooted", "persisted"})
        => (write_config(config) = file_at_start /\ file = file_at_start)

\* C20: a second run of the host and target that the run before persisted,
\* with the same host and none of -a, -i, -e, leaves the document and the
\* file equal to what the first run wrote.
C20_DocumentFixedPoint == FileFixedPoint /\ DocumentFixedPoint

====
